---- MODULE Spec2Model ----
(***************************************************************************)
(* State-machine model of the OHLC ingestion scripts daily.py (D1 candles) *)
(* and minutes.py (M1 candles): the transformer format_data, the store     *)
(* writer insert_data, the two selectors fetch_initial_historical_data and *)
(* fetch_latest_data, the scheduler calculate_seconds_to_next_fetch and    *)
(* the control flow of main().                                             *)
(*                                                                         *)
(* Prices are integers (price units), timestamps are integers (seconds     *)
(* since the epoch), and a formatted '%Y-%m-%d %H:%M:%S' key is the tuple  *)
(* <<day, hour, minute, second>> of the shifted timestamp.                 *)
(***************************************************************************)
EXTENDS Integers, Sequences, FiniteSets, TLC

VARIABLES
    inst,       \* which script runs: "daily" or "minutes"
    pc,         \* position of main()
    mt5Open,    \* the MetaTrader 5 terminal connection is initialized
    connOpen,   \* the sqlite3 connection is open
    table,      \* content of TABLE_NAME: key (time column) -> row
    cur,        \* index of the period the provider is accumulating
    requested,  \* count argument of the last copy_rates_from_pos call
    fetched,    \* result of the last copy_rates_from_pos call
    passed,     \* data frame handed to the persistence step by the last fetch
    rows,       \* value returned by the last insert_data call
    released,   \* connections released so far, in order
    lastOp,     \* the operation main() executed last
    called,     \* the data functions main() has called in this run
    run,        \* number of the current run of the script on the database file
    firstRun,   \* what the backfill of the first run fetched and inserted
    log,        \* the outcome line the current tick of the steady loop printed
    fullFetches,\* the backfill of this run stored candles and every fetch of
                \* the steady loop since returned two periods
    up,         \* harness of the insert_data specification
    sch         \* harness of the scheduler specification

vars == <<inst, pc, mt5Open, connOpen, table, cur, requested, fetched, passed,
          rows, released, lastOp, called, run, firstRun, log, fullFetches,
          up, sch>>

mainVars == <<inst, pc, mt5Open, connOpen, table, cur, requested, fetched,
              passed, rows, released, lastOp, called, run, firstRun, log, fullFetches>>

Instances == {"daily", "minutes"}

----------------------------------------------------------------------------
(* Bounds of the model *)

\* Candles fetched at startup; daily.py sets 5000 and minutes.py 90000, the
\* model runs the same code with a small count.
INITIAL_CANDLES == 3

\* Periods the provider clock may advance during a run.
MaxPeriod == 3

\* Longest candle sequence and number of distinct timestamps drawn for the
\* insert_data specification.
MaxLen == 3
MaxKeys == 2

\* Runs of the script on the same database file.
MaxRuns == 2

\* Clock resolution of the scheduler specification: datetime.now() is read
\* in ticks of 1/TicksPerSecond second.
TicksPerSecond == 2
MaxBatch == 215
MaxFetches == 2

----------------------------------------------------------------------------
(* Program constants *)

COMMIT_EVERY == 100
TZ_SHIFT_HOURS == 2
GRACE_SECONDS == 5
LATEST_COUNT == 2

SecondsPerMinute == 60
SecondsPerHour == 3600
SecondsPerDay == 86400

PeriodSeconds(i) == IF i = "daily" THEN SecondsPerDay ELSE SecondsPerMinute

----------------------------------------------------------------------------
(* Candle Transformer *)

\* Mutant of determine_candle_type: an unchanged price counts as bullish.
determine_candle_type_ge(open_price, close_price) ==
    IF close_price >= open_price THEN "bullish"
    ELSE IF close_price < open_price THEN "bearish"
    ELSE "neutral"

determine_candle_type(open_price, close_price) ==
    IF close_price > open_price THEN "bullish"
    ELSE IF close_price < open_price THEN "bearish"
    ELSE "neutral"

calculate_candle_range(high, low) == high - low

\* pd.to_datetime(unit='s') - Timedelta(hours=2), then strftime.
ShiftTime(epoch) == epoch - TZ_SHIFT_HOURS * SecondsPerHour

Strftime(t) ==
    << t \div SecondsPerDay,
       (t % SecondsPerDay) \div SecondsPerHour,
       (t % SecondsPerHour) \div SecondsPerMinute,
       t % SecondsPerMinute >>

FormatRow(i, r) ==
    LET base == [time        |-> Strftime(ShiftTime(r.time)),
                 open        |-> r.open,
                 high        |-> r.high,
                 low         |-> r.low,
                 close       |-> r.close,
                 tick_volume |-> r.tick_volume,
                 spread      |-> r.spread,
                 real_volume |-> r.real_volume,
                 candle_type |-> determine_candle_type(r.open, r.close),
                 range       |-> calculate_candle_range(r.high, r.low)]
    IN  IF i = "daily"
        THEN [x \in DOMAIN base \cup {"time_dt"} |->
                 IF x = "time_dt" THEN ShiftTime(r.time) ELSE base[x]]
        ELSE base

\* rates_frame is the sequence of raw records; an empty frame yields the
\* empty frame.
\* Mutant of format_data: the frame comes back newest first.
format_data_reversed(i, rates_frame) ==
    IF Len(rates_frame) = 0 THEN << >>
    ELSE [n \in 1..Len(rates_frame) |->
             FormatRow(i, rates_frame[Len(rates_frame) + 1 - n])]

format_data(i, rates_frame) ==
    IF Len(rates_frame) = 0 THEN << >>
    ELSE [n \in 1..Len(rates_frame) |-> FormatRow(i, rates_frame[n])]

\* format_data as a call: arg.none says that rates_frame is None.  None and a
\* frame without rows return pd.DataFrame() before any column is touched;
\* raised says whether the call ended with an exception.
format_data_call(i, arg) ==
    IF arg.none \/ Len(arg.rows) = 0
    THEN [raised |-> FALSE, frame |-> << >>]
    ELSE [raised |-> FALSE, frame |-> format_data(i, arg.rows)]

----------------------------------------------------------------------------
(* Persistence Store *)

Columns == {"time", "open", "high", "low", "close", "tick_volume", "spread",
            "real_volume", "candle_type", "range"}

\* Mutant of InsertValues: the key is written with the date only.
InsertValuesDateOnly(row) ==
    [c \in Columns |-> IF c = "time" THEN <<row.time[1], 0, 0, 0>> ELSE row[c]]

\* The tuple bound to the INSERT statement: the ten columns of the table.
InsertValues(row) == [c \in Columns |-> row[c]]

\* INSERT INTO TABLE_NAME ... of a row whose key is absent.
SqlInsert(t, r) ==
    [k \in DOMAIN t \cup {r.time} |-> IF k = r.time THEN r ELSE t[k]]

\* Mutant of SqlCount: the existence check never finds a row.
SqlCountNone(t, key) == 0

\* SELECT COUNT(*) FROM TABLE_NAME WHERE time = ?
SqlCount(t, key) == IF key \in DOMAIN t THEN 1 ELSE 0

\* The row a concurrent external writer stores under a key.
ExternalRow(key) ==
    [time |-> key, open |-> 0, high |-> 0, low |-> 0, close |-> 0,
     tick_volume |-> 0, spread |-> 0, real_volume |-> 0,
     candle_type |-> "neutral", range |-> 0]

\* A fresh accumulator of one insert_data call: the table, rows_inserted,
\* the number of conn.commit() calls made, the number of INSERTs executed
\* since the last commit, and the largest value that number has had.
StartAcc(t) ==
    [table |-> t, rows_inserted |-> 0, commits |-> 0, pending |-> 0, max_pending |-> 0]

\* Mutant of CommitDue: no commit inside the loop.
CommitDueNever(cnt) == FALSE

\* if rows_inserted % 100 == 0, evaluated right after the increment.
CommitDue(cnt) == cnt % COMMIT_EVERY = 0

\* Mutant of UniqueViolationSwallowed: the losing insert is counted as inserted.
UniqueViolationCounted(acc, row) ==
    [acc EXCEPT !.table = SqlInsert(@, ExternalRow(row.time)),
                !.rows_inserted = @ + 1]

\* The INSERT loses a race: an external writer stored the key after the SELECT,
\* cursor.execute raises sqlite3.Error "UNIQUE constraint failed", and the
\* handler passes.  Nothing of this call is stored for the key, and
\* rows_inserted is not incremented.
UniqueViolationSwallowed(acc, row) ==
    [acc EXCEPT !.table = SqlInsert(@, ExternalRow(row.time))]

\* One successful INSERT: the row is stored, rows_inserted is incremented and
\* a commit is made when the count is a multiple of 100.
InsertRow(acc, row) ==
    LET cnt  == acc.rows_inserted + 1
        pend == acc.pending + 1
        maxp == IF pend > acc.max_pending THEN pend ELSE acc.max_pending
    IN  [table         |-> SqlInsert(acc.table, InsertValues(row)),
         rows_inserted |-> cnt,
         commits       |-> IF CommitDue(cnt) THEN acc.commits + 1 ELSE acc.commits,
         pending       |-> IF CommitDue(cnt) THEN 0 ELSE pend,
         max_pending   |-> maxp]

\* One iteration of the loop of insert_data: the SELECT, then the INSERT when
\* no row has the key.  raced says that an external writer stores the key
\* between the two.
InsertStep(acc, row, raced) ==
    IF SqlCount(acc.table, row.time) # 0 THEN acc
    ELSE IF raced THEN UniqueViolationSwallowed(acc, row)
    ELSE InsertRow(acc, row)

\* The loop of insert_data over data_frame.iterrows().  race is the set of
\* positions at which an external writer stores the same key between the
\* SELECT and the INSERT.
RECURSIVE InsertLoop(_, _, _, _)
InsertLoop(acc, data_frame, n, race) ==
    IF n > Len(data_frame) THEN acc
    ELSE InsertLoop(InsertStep(acc, data_frame[n], n \in race), data_frame, n + 1, race)

\* Mutant of FinalCommit: the commit after the loop is left out.
NoFinalCommit(done) == done

\* conn.commit() after the loop.
FinalCommit(done) == [done EXCEPT !.commits = @ + 1, !.pending = 0]

\* Mutant of insert_data: the value returned counts the rows processed.
insert_data_processed(t, data_frame, race) ==
    LET done == InsertLoop(StartAcc(t), data_frame, 1, race)
    IN  [FinalCommit(done) EXCEPT !.rows_inserted = Len(data_frame)]

\* insert_data(conn, cursor, data_frame): the table afterwards, the value
\* returned and the conn.commit() calls made.  An empty frame returns 0
\* before any statement or commit.
insert_data(t, data_frame, race) ==
    IF Len(data_frame) = 0
    THEN StartAcc(t)
    ELSE FinalCommit(InsertLoop(StartAcc(t), data_frame, 1, race))

----------------------------------------------------------------------------
(* Inputs of the insert_data specification: raw provider records over a    *)
(* few timestamps, each with two different price variants.                 *)

RawTimes == {SecondsPerDay + k * 3661 : k \in 0..(MaxKeys - 1)}

RawVariants ==
    { [open |-> 10, high |-> 12, low |-> 9, close |-> 11],
      [open |-> 10, high |-> 13, low |-> 8, close |-> 9] }

RawOf(tm, v) ==
    [time |-> tm, open |-> v.open, high |-> v.high, low |-> v.low,
     close |-> v.close, tick_volume |-> 7, spread |-> 1, real_volume |-> 0]

RawUniverse == { RawOf(tm, v) : tm \in RawTimes, v \in RawVariants }

RawFrames == UNION { [1..n -> RawUniverse] : n \in 0..MaxLen }

KeyOf(raw) == Strftime(ShiftTime(raw.time))

\* The table holding the stored form of a set of raw records with distinct
\* timestamps.
TableOf(recs) ==
    [k \in {KeyOf(r) : r \in recs} |->
        InsertValues(FormatRow("minutes", CHOOSE r \in recs : KeyOf(r) = k))]

\* Every table content made of rows the program stores: any subset of the
\* timestamps, each under one of its variants.
StoredTables ==
    UNION { { TableOf({RawOf(tm, v[tm]) : tm \in S}) : v \in [S -> RawVariants] }
            : S \in SUBSET RawTimes }

IdleMain ==
    /\ inst = "daily"
    /\ pc = "Idle"
    /\ mt5Open = FALSE
    /\ connOpen = FALSE
    /\ table = << >>
    /\ cur = 0
    /\ requested = 0
    /\ fetched = [none |-> TRUE, rows |-> << >>]
    /\ passed = << >>
    /\ rows = 0
    /\ released = << >>
    /\ lastOp = "none"
    /\ called = {}
    /\ run = 1
    /\ firstRun = [done |-> FALSE]
    /\ log = "none"
    /\ fullFetches = FALSE

NoResult == StartAcc(<< >>)

UpInit ==
    /\ IdleMain
    /\ sch = [pc |-> "idle"]
    /\ \E i \in Instances, t \in StoredTables, rf \in RawFrames :
          up = [pc |-> "start", table0 |-> t, frame |-> format_data(i, rf),
                first |-> NoResult, second |-> NoResult]

\* First call of insert_data on the drawn table and frame.
UpFirst ==
    /\ up.pc = "start"
    /\ up' = [up EXCEPT !.pc = "once",
                        !.first = insert_data(up.table0, up.frame, {})]
    /\ UNCHANGED <<mainVars, sch>>

\* Second call, right after the first, with the same frame.
UpSecond ==
    /\ up.pc = "once"
    /\ up' = [up EXCEPT !.pc = "twice",
                        !.second = insert_data(up.first.table, up.frame, {})]
    /\ UNCHANGED <<mainVars, sch>>

UpNext == UpFirst \/ UpSecond

SpecUpsert == UpInit /\ [][UpNext]_vars

----------------------------------------------------------------------------
(* Claims about insert_data, checked under SpecUpsert.  The store raises   *)
(* no error and no other writer is active between the two calls.           *)

FrameKeys(f) == {f[n].time : n \in 1..Len(f)}

\* Positions of the frame whose key is neither in the table nor earlier in
\* the frame.
FirstOccurrences(f, t) ==
    {n \in 1..Len(f) :
        /\ f[n].time \notin DOMAIN t
        /\ \A m \in 1..(n - 1) : f[m].time # f[n].time}

\* C2: calling insert_data twice in a row with the same frame inserts each
\* distinct key of the frame that the table lacked exactly once, the second
\* call returns 0, and the table after the second call equals the table
\* after the first.
C2_UpsertIdempotent ==
    up.pc = "twice" =>
        /\ up.second.rows_inserted = 0
        /\ up.second.table = up.first.table
        /\ up.first.rows_inserted =
               Cardinality(FrameKeys(up.frame) \ DOMAIN up.table0)
        /\ DOMAIN up.first.table = DOMAIN up.table0 \cup FrameKeys(up.frame)

\* A second call after a first call that inserted rows from a frame holding
\* the same key twice.
C2_Witness ==
    /\ up.pc = "twice"
    /\ up.first.rows_inserted > 0
    /\ Cardinality(FrameKeys(up.frame)) < Len(up.frame)

\* C3: insert_data processes the frame in order, inserts a candle if and
\* only if no row with its key exists when it is processed (rows inserted
\* earlier in the same call count), and returns the number of rows inserted.
C3_UpsertInOrderCount ==
    up.pc # "start" =>
        LET ins == FirstOccurrences(up.frame, up.table0) IN
        /\ up.first.rows_inserted = Cardinality(ins)
        /\ DOMAIN up.first.table \ DOMAIN up.table0 =
               {up.frame[n].time : n \in ins}
        /\ \A n \in ins :
               up.first.table[up.frame[n].time] = InsertValues(up.frame[n])

\* A call that inserted some candles of the frame and skipped others, two
\* candles of the frame sharing a key with different prices.
C3_Witness ==
    /\ up.pc = "once"
    /\ up.first.rows_inserted >= 1
    /\ up.first.rows_inserted < Len(up.frame)
    /\ \E n, m \in 1..Len(up.frame) :
          /\ n < m
          /\ up.frame[n].time = up.frame[m].time
          /\ up.frame[n].close # up.frame[m].close
          /\ up.frame[n].time \notin DOMAIN up.table0

\* C4: insert_data leaves every row that existed before the call unchanged,
\* also when the frame holds a candle with the same key and other values,
\* and deletes no row.
C4_ExistingRowsUnchanged ==
    up.pc # "start" =>
        \A k \in DOMAIN up.table0 :
            /\ k \in DOMAIN up.first.table
            /\ up.first.table[k] = up.table0[k]
            /\ up.pc = "twice" =>
                   (k \in DOMAIN up.second.table /\ up.second.table[k] = up.table0[k])

\* A call whose frame holds a candle with an existing key and different
\* values.
C4_Witness ==
    /\ up.pc = "once"
    /\ \E n \in 1..Len(up.frame) :
          /\ up.frame[n].time \in DOMAIN up.table0
          /\ InsertValues(up.frame[n]) # up.table0[up.frame[n].time]

\* C15 as stated: every call of insert_data ends with a commit, whatever the
\* batch.  The call with a zero-length frame refutes it.
C15_AlwaysFinalCommit ==
    up.pc # "start" => up.first.commits >= 1

\* C15 amended: a call of insert_data with a non-empty frame ends with a commit
\* after the whole frame has been processed, so that no insert is left
\* uncommitted; a call with a zero-length frame returns 0 and commits nothing.
C15_FinalCommitUnlessEmpty ==
    up.pc # "start" =>
        IF Len(up.frame) = 0
        THEN /\ up.first.commits = 0
             /\ up.first.rows_inserted = 0
             /\ up.first.table = up.table0
        ELSE /\ up.first.commits >= 1
             /\ up.first.pending = 0

C15_Witness ==
    /\ up.pc = "once"
    /\ Len(up.frame) = 0
    /\ up.first.commits = 0

----------------------------------------------------------------------------
(* insert_data racing an external writer.  One call of insert_data on a    *)
(* drawn table and frame; at the drawn position of the frame the external  *)
(* writer stores the candle's key between the SELECT and the               *)
(* INSERT of that iteration.                                               *)

RaceInit ==
    /\ IdleMain
    /\ sch = [pc |-> "idle"]
    /\ \E i \in Instances, t \in StoredTables, rf \in RawFrames :
          \E n \in 1..Len(rf) :
              up = [pc |-> "start", table0 |-> t, frame |-> format_data(i, rf),
                    race |-> {n}, first |-> NoResult, second |-> NoResult]

RaceCall ==
    /\ up.pc = "start"
    /\ up' = [up EXCEPT !.pc = "raced",
                        !.first = insert_data(up.table0, up.frame, up.race)]
    /\ UNCHANGED <<mainVars, sch>>

RaceNext == RaceCall

SpecRace == RaceInit /\ [][RaceNext]_vars

\* C16: when the external writer stores a key between the existence check and
\* the insert, insert_data still returns (its final commit is made), does not
\* count that candle, leaves the external writer's row as it is, keeps the rows
\* the table had, and inserts and counts every other candle of the frame whose
\* key was absent when it was processed.
C16_RaceSwallowed ==
    up.pc = "raced" =>
        LET fo   == FirstOccurrences(up.frame, up.table0)
            lost == fo \cap up.race
            won  == fo \ up.race
        IN  /\ up.first.commits >= 1
            /\ up.first.rows_inserted = Cardinality(won)
            /\ \A n \in lost :
                   up.first.table[up.frame[n].time] = ExternalRow(up.frame[n].time)
            /\ \A n \in won :
                   up.first.table[up.frame[n].time] = InsertValues(up.frame[n])
            /\ \A k \in DOMAIN up.table0 : up.first.table[k] = up.table0[k]
            /\ DOMAIN up.first.table =
                   DOMAIN up.table0 \cup FrameKeys(up.frame)

\* The race is lost on a candle that is followed, in the same frame, by a
\* candle of another key that is inserted, and by a second candle of the raced
\* key.
C16_Witness ==
    /\ up.pc = "raced"
    /\ \E l \in FirstOccurrences(up.frame, up.table0) \cap up.race :
          /\ \E w \in FirstOccurrences(up.frame, up.table0) \ up.race : w > l
          /\ \E d \in 1..Len(up.frame) : d > l /\ up.frame[d].time = up.frame[l].time
    /\ up.first.rows_inserted = 1

----------------------------------------------------------------------------
(* insert_data on a long frame, as in the backfill, one iteration of its   *)
(* loop at a time.  The frame has one candle per day; with a stride q > 0  *)
(* every q-th candle repeats the key of the candle before it, and the      *)
(* table may already hold every 40th day.                                  *)

DupStrides == {0, 2, 3, 25}

BatchTime(n, q) ==
    SecondsPerDay * (IF q > 0 /\ n % q = 0 THEN n - 1 ELSE n)

BatchFrame(len, q) ==
    [n \in 1..len |-> RawOf(BatchTime(n, q), CHOOSE v \in RawVariants : TRUE)]

BatchTables ==
    { << >>,
      TableOf({RawOf(SecondsPerDay * n, CHOOSE v \in RawVariants : TRUE) :
                  n \in {m \in 1..MaxBatch : m % 40 = 0}}) }

BatchInit ==
    /\ IdleMain
    /\ sch = [pc |-> "idle"]
    /\ \E i \in Instances, t \in BatchTables, q \in DupStrides :
          up = [pc |-> "start", table0 |-> t,
                frame |-> format_data(i, BatchFrame(MaxBatch, q)),
                n |-> 1, first |-> NoResult, second |-> NoResult]

\* Entry of insert_data with a non-empty frame: rows_inserted = 0.
BatchEnter ==
    /\ up.pc = "start"
    /\ Len(up.frame) # 0
    /\ up' = [up EXCEPT !.pc = "loop", !.first = StartAcc(up.table0)]
    /\ UNCHANGED <<mainVars, sch>>

\* One iteration of the loop.
BatchRow ==
    /\ up.pc = "loop"
    /\ up.n <= Len(up.frame)
    /\ up' = [up EXCEPT !.n = @ + 1,
                        !.first = InsertStep(up.first, up.frame[up.n], FALSE)]
    /\ UNCHANGED <<mainVars, sch>>

\* The loop is over: the final commit.
BatchCommit ==
    /\ up.pc = "loop"
    /\ up.n > Len(up.frame)
    /\ up' = [up EXCEPT !.pc = "batched", !.first = FinalCommit(up.first)]
    /\ UNCHANGED <<mainVars, sch>>

BatchNext == BatchEnter \/ BatchRow \/ BatchCommit

SpecBatch == BatchInit /\ [][BatchNext]_vars

\* C17: during insert_data a commit is made each time rows_inserted reaches a
\* multiple of 100, so the number of inserted rows not yet committed never
\* exceeds 100 at any point of the call, whatever duplicates are skipped in
\* between; with the final commit the call makes rows_inserted \div 100 + 1
\* commits.
C17_CommitEveryHundred ==
    /\ up.pc \in {"loop", "batched"} =>
          /\ up.first.max_pending <= COMMIT_EVERY
          /\ up.first.pending <= COMMIT_EVERY
    /\ up.pc = "loop" =>
          /\ up.first.commits = up.first.rows_inserted \div COMMIT_EVERY
          /\ up.first.pending = up.first.rows_inserted % COMMIT_EVERY
    /\ up.pc = "batched" =>
          /\ up.first.commits = (up.first.rows_inserted \div COMMIT_EVERY) + 1
          /\ up.first.pending = 0

\* A call that inserted more than 200 rows with skipped duplicates in between:
\* two commits inside the loop and the final one.
C17_Witness ==
    /\ up.pc = "batched"
    /\ up.first.rows_inserted > 2 * COMMIT_EVERY
    /\ up.first.rows_inserted < Len(up.frame)
    /\ up.first.max_pending = COMMIT_EVERY
    /\ up.first.commits = 3

----------------------------------------------------------------------------
(* Scheduler.  A datetime is a number of ticks since midnight of day 0; a  *)
(* timedelta is a number of ticks.                                         *)

PeriodTicks(i) == PeriodSeconds(i) * TicksPerSecond

\* daily.py: current_time.replace(hour=0, minute=0, second=0, microsecond=0)
\* minutes.py: current_time.replace(second=0, microsecond=0)
ReplaceToPeriodStart(i, current_time) ==
    current_time - (current_time % PeriodTicks(i))

\* Mutant of TotalSecondsToInt: the delay is rounded up.
TotalSecondsCeil(ticks) == (ticks + TicksPerSecond - 1) \div TicksPerSecond

\* int(wait_seconds) of a timedelta's total_seconds(): truncation toward 0.
TotalSecondsToInt(ticks) ==
    IF ticks >= 0 THEN ticks \div TicksPerSecond
    ELSE -((-ticks) \div TicksPerSecond)

\* Mutant of calculate_seconds_to_next_fetch: the period added to the start
\* of the current period is forgotten.
calculate_seconds_to_this_period(i, current_time) ==
    LET next_period  == ReplaceToPeriodStart(i, current_time)
        fetch_time   == next_period + GRACE_SECONDS * TicksPerSecond
        wait_seconds == fetch_time - current_time
    IN  IF wait_seconds < 0
        THEN TotalSecondsToInt(next_period + PeriodTicks(i)
                               + GRACE_SECONDS * TicksPerSecond - current_time)
        ELSE TotalSecondsToInt(wait_seconds)

calculate_seconds_to_next_fetch(i, current_time) ==
    LET next_period  == ReplaceToPeriodStart(i, current_time) + PeriodTicks(i)
        fetch_time   == next_period + GRACE_SECONDS * TicksPerSecond
        wait_seconds == fetch_time - current_time
    IN  IF wait_seconds < 0
        THEN TotalSecondsToInt(next_period + PeriodTicks(i)
                               + GRACE_SECONDS * TicksPerSecond - current_time)
        ELSE TotalSecondsToInt(wait_seconds)

\* The times of day at which the scheduler is first called: every tick of
\* one day.
NowValues == 0..(SecondsPerDay * TicksPerSecond - 1)

\* Ticks the fetch and the insert of one iteration take before the loop
\* calls the scheduler again: none, one tick, or a whole minute.
IterationTicks == {0, 1, SecondsPerMinute * TicksPerSecond}

\* The steady loop as the scheduler sees it: now is the clock, at the time of
\* the datetime.now() of the last scheduler call, wait its answer, fetches the
\* number of fetches issued, fetch_at and last_fetch_at the times of the last
\* two of them.
SchInit ==
    /\ IdleMain
    /\ up = [pc |-> "idle"]
    /\ \E i \in Instances, t \in NowValues :
          sch = [pc |-> "start", inst |-> i, now |-> t, at |-> t, wait |-> 0,
                 fetches |-> 0, fetch_at |-> 0, last_fetch_at |-> 0]

\* seconds_to_next_fetch = calculate_seconds_to_next_fetch()
SchCompute ==
    /\ sch.pc = "start"
    /\ sch' = [sch EXCEPT !.pc = "done",
                          !.at = sch.now,
                          !.wait = calculate_seconds_to_next_fetch(sch.inst, sch.now)]
    /\ UNCHANGED <<mainVars, up>>

\* time.sleep(seconds_to_next_fetch) blocks for that number of seconds, and
\* fetch_latest_data() is called.
SchSleep ==
    /\ sch.pc = "done"
    /\ sch' = [sch EXCEPT !.pc = "woke",
                          !.now = sch.now + sch.wait * TicksPerSecond,
                          !.fetches = @ + 1,
                          !.fetch_at = sch.now + sch.wait * TicksPerSecond,
                          !.last_fetch_at = sch.fetch_at]
    /\ UNCHANGED <<mainVars, up>>

\* The rest of the iteration; the loop comes back to the scheduler.
SchIterate ==
    /\ sch.pc = "woke"
    /\ sch.fetches < MaxFetches
    /\ \E d \in IterationTicks :
          sch' = [sch EXCEPT !.pc = "start", !.now = @ + d, !.at = sch.now + d,
                             !.wait = 0]
    /\ UNCHANGED <<mainVars, up>>

SchNext == SchCompute \/ SchSleep \/ SchIterate

SpecSched == SchInit /\ [][SchNext]_vars

\* hh:mm:ss of the drawn day, in ticks.
TimeOfDay(h, m, s) ==
    (h * SecondsPerHour + m * SecondsPerMinute + s) * TicksPerSecond

\* C5: for every now and both granularities the scheduler returns a
\* non-negative integer, the whole seconds from now to the target, where the
\* target minus the 5 s grace is the first period boundary strictly after
\* now; with daily granularity 23:59:58 gives 7 and 00:00:06 gives 86399,
\* the delay to the next day's 00:00:05.
C5_SchedulerDelay ==
    sch.pc = "done" =>
        /\ sch.wait \in Nat
        /\ \E frac \in 0..(TicksPerSecond - 1) :
              LET target   == sch.now + sch.wait * TicksPerSecond + frac
                  boundary == target - GRACE_SECONDS * TicksPerSecond
              IN  /\ boundary % PeriodTicks(sch.inst) = 0
                  /\ boundary > sch.now
                  /\ boundary - PeriodTicks(sch.inst) <= sch.now
        /\ (sch.inst = "daily" /\ sch.now = TimeOfDay(23, 59, 58)) => sch.wait = 7
        /\ (sch.inst = "daily" /\ sch.now = TimeOfDay(0, 0, 6)) => sch.wait = 86399

\* The scheduler has answered for a time of day with a sub-second part, in
\* the last second before midnight.
C5_Witness ==
    /\ sch.pc = "done"
    /\ sch.inst = "daily"
    /\ sch.now = TimeOfDay(23, 59, 59) + 1
    /\ sch.wait = 5

\* Index of the period a time lies in.
PeriodIndex(i, t) == t \div PeriodTicks(i)

\* C18: in the steady loop the delay is computed and slept before every
\* fetch; the delay is at least 5 seconds and at most one period plus 5
\* seconds for every now; so each fetch comes at least 5 seconds after the
\* scheduler call before it, and two consecutive fetches lie in different
\* periods.
C18_DelayBounds ==
    /\ sch.pc \in {"done", "woke"} =>
          /\ sch.wait >= GRACE_SECONDS
          /\ sch.wait <= PeriodSeconds(sch.inst) + GRACE_SECONDS
    /\ sch.pc = "woke" =>
          /\ sch.fetch_at = sch.at + sch.wait * TicksPerSecond
          /\ sch.fetch_at >= sch.at + GRACE_SECONDS * TicksPerSecond
    /\ (sch.pc = "woke" /\ sch.fetches >= 2) =>
          /\ sch.at >= sch.last_fetch_at
          /\ PeriodIndex(sch.inst, sch.fetch_at) >
                 PeriodIndex(sch.inst, sch.last_fetch_at)

\* A second fetch of the minute loop after an iteration that took a whole
\* minute, one period plus the shortest delay after the first.
C18_Witness ==
    /\ sch.pc = "woke"
    /\ sch.inst = "minutes"
    /\ sch.fetches = 2
    /\ sch.at = sch.last_fetch_at + SecondsPerMinute * TicksPerSecond
    /\ sch.wait = SecondsPerMinute

\* C19: with a sleep of exactly the returned number of seconds, every fetch
\* of the steady loop is issued no earlier than 5 seconds after the period
\* boundary before it, whatever the sub-second part of the time at which the
\* delay was computed.
C19_FetchAfterGrace ==
    sch.pc = "woke" =>
        sch.fetch_at % PeriodTicks(sch.inst) >= GRACE_SECONDS * TicksPerSecond

----------------------------------------------------------------------------
(* Data Source Adapter.  Period p of the provider starts at EpochOf(i, p); *)
(* the provider is accumulating period c, whose record is provisional.     *)

EmptyTable == [k \in {} |-> 0]

BaseEpoch == 10 * SecondsPerDay

EpochOf(i, p) == BaseEpoch + p * PeriodSeconds(i)

\* The record the provider returns for period p while period c accumulates:
\* closed periods are bullish, bearish and neutral in turn.
ProviderRecord(i, p, c) ==
    LET open_price == 100 + p IN
    [time        |-> EpochOf(i, p),
     open        |-> open_price,
     high        |-> IF p = c THEN open_price + 1 ELSE open_price + 2,
     low         |-> IF p = c THEN open_price ELSE open_price - 2,
     close       |-> IF p = c THEN open_price + 1
                     ELSE IF p % 3 = 0 THEN open_price + 1
                     ELSE IF p % 3 = 1 THEN open_price - 1
                     ELSE open_price,
     tick_volume |-> IF p = c THEN 1 ELSE 7,
     spread      |-> 1,
     real_volume |-> 0]

\* mt5.copy_rates_from_pos("BTCUSD", timeframe, 0, count): None, or the k
\* most recent periods oldest first, 0 <= k <= count, the newest being the
\* accumulating one.
CopyRatesResults(i, c, count) ==
    {[none |-> TRUE, rows |-> << >>]} \cup
    { [none |-> FALSE,
       rows |-> [n \in 1..k |-> ProviderRecord(i, c - k + n, c)]]
      : k \in 0..count }

----------------------------------------------------------------------------
(* Completed-Period Selector *)

\* daily.py asks for INITIAL_CANDLES + 1 periods, minutes.py for
\* INITIAL_CANDLES.
InitialRequestCount(i) ==
    IF i = "daily" THEN INITIAL_CANDLES + 1 ELSE INITIAL_CANDLES

\* Mutant of fetch_initial_historical_data: the last candle is kept.
fetch_initial_keep_last(i, rates) ==
    IF ~rates.none /\ Len(rates.rows) > 0
    THEN format_data(i, rates.rows)
    ELSE << >>

\* The frame fetch_initial_historical_data returns for the provider's
\* answer rates: rates_frame.iloc[:-1].
fetch_initial_historical_data(i, rates) ==
    IF ~rates.none /\ Len(rates.rows) > 0
    THEN LET rates_frame == format_data(i, rates.rows)
         IN  SubSeq(rates_frame, 1, Len(rates_frame) - 1)
    ELSE << >>

\* Mutant of fetch_latest_data: one candle is enough.
fetch_latest_data_one(i, rates) ==
    IF ~rates.none /\ Len(rates.rows) >= 1
    THEN SubSeq(format_data(i, rates.rows), 1, 1)
    ELSE << >>

\* The frame fetch_latest_data returns for the provider's answer rates:
\* rates_frame.iloc[0:1].
fetch_latest_data(i, rates) ==
    IF ~rates.none /\ Len(rates.rows) >= 2
    THEN LET rates_frame == format_data(i, rates.rows)
         IN  SubSeq(rates_frame, 1, 1)
    ELSE << >>

----------------------------------------------------------------------------
(* Ingestion Loop: main() *)

StartPeriod == INITIAL_CANDLES + 1
LastPeriod == StartPeriod + MaxPeriod

KeyOfPeriod(i, p) == KeyOf([time |-> EpochOf(i, p)])

\* What the database file may hold when the script starts: nothing, or the
\* rows an earlier run stored.
PriorTables(i) ==
    { EmptyTable,
      [k \in {KeyOfPeriod(i, p) : p \in {StartPeriod - 2, StartPeriod - 1}} |->
          InsertValues(FormatRow(i,
              ProviderRecord(i, CHOOSE p \in {StartPeriod - 2, StartPeriod - 1} :
                                    KeyOfPeriod(i, p) = k, StartPeriod))) ] }

Init ==
    /\ inst \in Instances
    /\ pc = "Startup"
    /\ mt5Open = FALSE
    /\ connOpen = FALSE
    /\ table \in PriorTables(inst)
    /\ cur = StartPeriod
    /\ requested = 0
    /\ fetched = [none |-> TRUE, rows |-> << >>]
    /\ passed = << >>
    /\ rows = 0
    /\ released = << >>
    /\ lastOp = "none"
    /\ called = {}
    /\ run = 1
    /\ firstRun = [done |-> FALSE]
    /\ log = "none"
    /\ fullFetches = FALSE
    /\ up = [pc |-> "idle"]
    /\ sch = [pc |-> "idle"]

\* initialize_mt5() returns True.
InitializeMt5Ok ==
    /\ pc = "Startup"
    /\ mt5Open' = TRUE
    /\ pc' = "ConnectDb"
    /\ lastOp' = "initialize_mt5"
    /\ UNCHANGED <<inst, connOpen, table, cur, requested, fetched, passed,
                   rows, released, up, sch, called, run, firstRun, log, fullFetches>>

\* initialize_mt5() returns False: main() returns.
InitializeMt5Fail ==
    /\ pc = "Startup"
    /\ pc' = "Terminated"
    /\ lastOp' = "initialize_mt5_failed"
    /\ UNCHANGED <<inst, mt5Open, connOpen, table, cur, requested, fetched,
                   passed, rows, released,
                   up, sch, called, run, firstRun, log, fullFetches>>

\* create_database_connection() returns a connection.
ConnectDbOk ==
    /\ pc = "ConnectDb"
    /\ connOpen' = TRUE
    /\ pc' = "CreateTable"
    /\ lastOp' = "connect_db"
    /\ UNCHANGED <<inst, mt5Open, table, cur, requested, fetched, passed,
                   rows, released, up, sch, called, run, firstRun, log, fullFetches>>

\* create_database_connection() returns (None, None): the terminal is shut
\* down (daily.py: when mt5.terminal_state()[0] says it is initialized) and
\* main() returns.
ConnectDbFail ==
    /\ pc = "ConnectDb"
    /\ IF inst = "minutes" \/ mt5Open
       THEN mt5Open' = FALSE /\ released' = Append(released, "source")
       ELSE UNCHANGED <<mt5Open, released>>
    /\ pc' = "Terminated"
    /\ lastOp' = "connect_db_failed"
    /\ UNCHANGED <<inst, connOpen, table, cur, requested, fetched, passed,
                   rows, up, sch, called, run, firstRun, log, fullFetches>>

\* create_table(conn, cursor, recreate=True) returns True: the table is
\* dropped and created anew.
CreateTableOk ==
    /\ pc = "CreateTable"
    /\ table' = EmptyTable
    /\ pc' = "Backfilling"
    /\ lastOp' = "create_table"
    /\ UNCHANGED <<inst, mt5Open, connOpen, cur, requested, fetched, passed,
                   rows, released, up, sch, called, run, firstRun, log, fullFetches>>

\* Mutant of CreateTableFail: the value create_table returns is ignored and
\* main() goes on to the backfill.
CreateTableFailIgnored ==
    /\ pc = "CreateTable"
    /\ table' \in {table, EmptyTable}
    /\ pc' = "Backfilling"
    /\ lastOp' = "create_table_failed"
    /\ UNCHANGED <<inst, mt5Open, connOpen, cur, requested, fetched, passed,
                   rows, released, up, sch, called, run, firstRun, log, fullFetches>>

\* create_table returns False (the DROP or the CREATE raised sqlite3.Error):
\* main() returns from inside the try block.
CreateTableFail ==
    /\ pc = "CreateTable"
    /\ table' \in {table, EmptyTable}
    /\ pc' = "Cleanup"
    /\ lastOp' = "create_table_failed"
    /\ UNCHANGED <<inst, mt5Open, connOpen, cur, requested, fetched, passed,
                   rows, released, up, sch, called, run, firstRun, log, fullFetches>>

\* fetch_initial_historical_data() and, when it returned candles,
\* insert_data(); the steady loop follows in every case.
Backfill ==
    /\ pc = "Backfilling"
    /\ \E r \in CopyRatesResults(inst, cur, InitialRequestCount(inst)) :
          LET historical_data == fetch_initial_historical_data(inst, r)
              res == insert_data(table, historical_data, {})
          IN  /\ requested' = InitialRequestCount(inst)
              /\ fetched' = r
              /\ passed' = historical_data
              /\ IF Len(historical_data) # 0
                 THEN /\ table' = res.table
                      /\ rows' = res.rows_inserted
                      /\ called' = called \cup {"fetch_initial_historical_data",
                                                "insert_data"}
                 ELSE /\ UNCHANGED <<table, rows>>
                      /\ called' = called \cup {"fetch_initial_historical_data"}
              /\ firstRun' = IF run = 1
                             THEN [done |-> TRUE, fetched |-> r,
                                   inserted |-> IF Len(historical_data) # 0
                                                THEN res.rows_inserted ELSE 0]
                             ELSE firstRun
              /\ fullFetches' = (Len(historical_data) # 0)
    /\ pc' = "Waiting"
    /\ lastOp' = "backfill"
    /\ UNCHANGED <<inst, mt5Open, connOpen, cur, released, up, sch, run, log>>

\* calculate_seconds_to_next_fetch() and time.sleep(): the loop wakes in the
\* next period, after its boundary.
Sleep ==
    /\ pc = "Waiting"
    /\ cur < LastPeriod
    /\ cur' = cur + 1
    /\ pc' = "Fetching"
    /\ lastOp' = "sleep"
    /\ UNCHANGED <<inst, mt5Open, connOpen, table, requested, fetched, passed,
                   rows, released, up, sch, called, run, firstRun, log, fullFetches>>

\* calculate_seconds_to_next_fetch() and time.sleep() when the provider has
\* opened no new period by the time the loop wakes (no tick received since
\* the boundary, or the server clock behind the local one).
SleepNoNewPeriod ==
    /\ pc = "Waiting"
    /\ pc' = "Fetching"
    /\ lastOp' = "sleep"
    /\ UNCHANGED <<inst, mt5Open, connOpen, table, cur, requested, fetched,
                   passed, rows, released, up, sch, called, run, firstRun, log, fullFetches>>

\* Mutant of FetchLatest: an empty frame raises in the loop body and ends
\* the loop through the exception handler.
FetchLatestRaisesOnEmpty ==
    /\ pc = "Fetching"
    /\ \E r \in CopyRatesResults(inst, cur, LATEST_COUNT) :
          LET latest_data == fetch_latest_data(inst, r)
          IN  /\ requested' = LATEST_COUNT
              /\ fetched' = r
              /\ passed' = latest_data
              /\ pc' = IF Len(latest_data) # 0 THEN "Persisting" ELSE "Cleanup"
              /\ log' = IF Len(latest_data) # 0 THEN "none" ELSE "no_data"
              /\ fullFetches' = (fullFetches /\ Len(latest_data) # 0)
    /\ called' = called \cup {"fetch_latest_data"}
    /\ lastOp' = "fetch"
    /\ UNCHANGED <<inst, mt5Open, connOpen, table, cur, rows, released,
                   up, sch, run, firstRun>>

\* fetch_latest_data(): the completed candle goes to insert_data, an empty
\* frame prints the "No new data" line and sends the loop back to sleep.
FetchLatest ==
    /\ pc = "Fetching"
    /\ \E r \in CopyRatesResults(inst, cur, LATEST_COUNT) :
          LET latest_data == fetch_latest_data(inst, r)
          IN  /\ requested' = LATEST_COUNT
              /\ fetched' = r
              /\ passed' = latest_data
              /\ pc' = IF Len(latest_data) # 0 THEN "Persisting" ELSE "Waiting"
              /\ log' = IF Len(latest_data) # 0 THEN "none" ELSE "no_data"
              /\ fullFetches' = (fullFetches /\ Len(latest_data) # 0)
    /\ called' = called \cup {"fetch_latest_data"}
    /\ lastOp' = "fetch"
    /\ UNCHANGED <<inst, mt5Open, connOpen, table, cur, rows, released,
                   up, sch, run, firstRun>>

\* The outcome line main() prints after insert_data returned rows_count:
\* daily.py prints "Data updated" only when rows > 0 and the "duplicate or
\* insert failed" line otherwise; minutes.py prints "Data updated" always.
OutcomeLine(i, rows_count) ==
    IF i = "daily"
    THEN IF rows_count > 0 THEN "updated" ELSE "duplicate_or_failed"
    ELSE "updated"

\* insert_data(conn, cursor, latest_data) of the steady loop, and the
\* outcome line printed after it.
Persist ==
    /\ pc = "Persisting"
    /\ LET res == insert_data(table, passed, {})
       IN  /\ table' = res.table
           /\ rows' = res.rows_inserted
           /\ log' = OutcomeLine(inst, res.rows_inserted)
    /\ called' = called \cup {"insert_data"}
    /\ pc' = "Waiting"
    /\ lastOp' = "persist"
    /\ UNCHANGED <<inst, mt5Open, connOpen, cur, requested, fetched, passed,
                   released, up, sch, run, firstRun, fullFetches>>

\* A period boundary passes while the loop is busy outside time.sleep():
\* before or during the backfill, a fetch or an insert, or before the next
\* delay is computed.
PeriodElapses ==
    /\ pc \in {"Backfilling", "Waiting", "Fetching", "Persisting"}
    /\ cur < LastPeriod
    /\ cur' = cur + 1
    /\ UNCHANGED <<inst, pc, mt5Open, connOpen, table, requested, fetched,
                   passed, rows, released, lastOp,
                   up, sch, called, run, firstRun, log, fullFetches>>

InTryBlock == {"CreateTable", "Backfilling", "Waiting", "Fetching", "Persisting"}

\* KeyboardInterrupt inside the try block: the handler prints and the
\* finally clause runs.
KeyboardInterrupt ==
    /\ pc \in InTryBlock
    /\ pc' = "Cleanup"
    /\ lastOp' = "interrupt"
    /\ UNCHANGED <<inst, mt5Open, connOpen, table, cur, requested, fetched,
                   passed, rows, released,
                   up, sch, called, run, firstRun, log, fullFetches>>

\* Any other exception inside the try block: the handler prints the
\* traceback and the finally clause runs.
UnexpectedError ==
    /\ pc \in InTryBlock
    /\ pc' = "Cleanup"
    /\ lastOp' = "error"
    /\ UNCHANGED <<inst, mt5Open, connOpen, table, cur, requested, fetched,
                   passed, rows, released,
                   up, sch, called, run, firstRun, log, fullFetches>>

\* KeyboardInterrupt (or any exception) while initialize_mt5() or
\* create_database_connection() runs: no handler encloses these calls, the
\* exception leaves main() and the process exits.
InterruptBeforeTry ==
    /\ pc \in {"Startup", "ConnectDb"}
    /\ pc' = "Terminated"
    /\ lastOp' = "uncaught"
    /\ UNCHANGED <<inst, mt5Open, connOpen, table, cur, requested, fetched,
                   passed, rows, released,
                   up, sch, called, run, firstRun, log, fullFetches>>

\* The finally clause: conn.close(), then mt5.shutdown() (daily.py: when
\* mt5.terminal_state()[0] says the terminal is initialized).
Cleanup ==
    /\ pc = "Cleanup"
    /\ LET afterConn == IF connOpen THEN Append(released, "store") ELSE released
       IN  IF inst = "minutes" \/ mt5Open
           THEN mt5Open' = FALSE /\ released' = Append(afterConn, "source")
           ELSE UNCHANGED mt5Open /\ released' = afterConn
    /\ connOpen' = FALSE
    /\ pc' = "Terminated"
    /\ UNCHANGED <<inst, table, cur, requested, fetched, passed, rows, lastOp,
                   up, sch, called, run, firstRun, log, fullFetches>>

\* The script is started again on the same database file after it ended.
Rerun ==
    /\ pc = "Terminated"
    /\ run < MaxRuns
    /\ run' = run + 1
    /\ pc' = "Startup"
    /\ mt5Open' = FALSE
    /\ connOpen' = FALSE
    /\ requested' = 0
    /\ fetched' = [none |-> TRUE, rows |-> << >>]
    /\ passed' = << >>
    /\ rows' = 0
    /\ released' = << >>
    /\ lastOp' = "none"
    /\ called' = {}
    /\ log' = "none"
    /\ fullFetches' = FALSE
    /\ UNCHANGED <<inst, table, cur, firstRun, up, sch>>

Next ==
    \/ InitializeMt5Ok
    \/ InitializeMt5Fail
    \/ ConnectDbOk
    \/ ConnectDbFail
    \/ CreateTableOk
    \/ CreateTableFail
    \/ Backfill
    \/ Sleep
    \/ SleepNoNewPeriod
    \/ FetchLatest
    \/ Persist
    \/ PeriodElapses
    \/ KeyboardInterrupt
    \/ UnexpectedError
    \/ InterruptBeforeTry
    \/ Cleanup
    \/ Rerun

Spec == Init /\ [][Next]_vars

----------------------------------------------------------------------------
(* Claims about the ingestion loop, checked under Spec. *)

\* The provider answered with at least one record.
HasRows(r) == ~r.none /\ Len(r.rows) > 0

Newest(r) == r.rows[Len(r.rows)]

\* Candle c carries the time key and the prices of raw record r.
SameCandle(c, r) ==
    /\ c.time = KeyOf(r)
    /\ c.open = r.open /\ c.high = r.high /\ c.low = r.low /\ c.close = r.close
    /\ c.tick_volume = r.tick_volume

\* C1: in every reachable state of either script every row of the table is
\* for a period older than the one the provider is accumulating, and the
\* newest element of a fetch result is never in the frame handed to
\* insert_data.
C1_NoInProgressRow ==
    /\ \A k \in DOMAIN table : \E p \in 0..(cur - 1) : k = KeyOfPeriod(inst, p)
    /\ (lastOp \in {"backfill", "fetch", "persist"} /\ HasRows(fetched)) =>
           \A n \in 1..Len(passed) : passed[n].time # KeyOf(Newest(fetched))

\* A steady-state tick has stored the candle completed just before the
\* accumulating one.
C1_Witness ==
    /\ lastOp = "persist"
    /\ rows = 1
    /\ KeyOfPeriod(inst, cur - 1) \in DOMAIN table
    /\ Len(fetched.rows) = LATEST_COUNT

\* C6: in both scripts the backfill requests INITIAL_CANDLES + 1 periods
\* and, when that many are returned, hands the first INITIAL_CANDLES of
\* them, in order, to insert_data.
C6_BackfillRequestsNPlusOne ==
    lastOp = "backfill" =>
        /\ requested = INITIAL_CANDLES + 1
        /\ (~fetched.none /\ Len(fetched.rows) = INITIAL_CANDLES + 1) =>
               /\ Len(passed) = INITIAL_CANDLES
               /\ \A n \in 1..INITIAL_CANDLES : SameCandle(passed[n], fetched.rows[n])

\* C7: given two periods the steady-state selector returns exactly the
\* older one; given fewer than two, or no answer, it returns nothing.
C7_SteadySelector ==
    lastOp = "fetch" =>
        /\ (~fetched.none /\ Len(fetched.rows) = 2) =>
               /\ Len(passed) = 1
               /\ SameCandle(passed[1], fetched.rows[1])
               /\ passed[1].time # KeyOf(fetched.rows[2])
        /\ (fetched.none \/ Len(fetched.rows) < 2) => passed = << >>

\* The selector has answered for a two-element fetch result.
C7_Witness ==
    /\ lastOp = "fetch"
    /\ ~fetched.none
    /\ Len(fetched.rows) = 2
    /\ Len(passed) = 1

\* C8: a steady-state tick whose fetch fails or returns fewer than two
\* periods leaves the table unchanged and sends the loop back to Waiting,
\* without terminating it.
C8_ShortFetchTick ==
    [][ (pc = "Fetching" /\ lastOp' = "fetch"
         /\ (fetched'.none \/ Len(fetched'.rows) < 2))
        => (table' = table /\ pc' = "Waiting" /\ passed' = << >>) ]_vars

\* A tick whose fetch returned one period has ended, the loop waiting again
\* after an earlier tick stored a candle.
C8_Witness ==
    /\ lastOp = "fetch"
    /\ pc = "Waiting"
    /\ ~fetched.none
    /\ Len(fetched.rows) = 1
    /\ table # EmptyTable

\* C9: whenever main() has ended, whichever state ended it, no connection it
\* acquired is still open and the releases happened store first, source
\* second.
C9_ReleaseOrder ==
    pc = "Terminated" =>
        /\ ~connOpen
        /\ ~mt5Open
        /\ released \in {<< >>, <<"source">>, <<"store", "source">>}

\* C10: the process does not exit while a connection it acquired is still
\* open, for an interruption or error arriving at any point after the
\* source connection was established, Startup included.
C10_NoOpenConnectionAtExit ==
    pc = "Terminated" => (~mt5Open /\ ~connOpen)

StartupFailures ==
    {"initialize_mt5_failed", "connect_db_failed", "create_table_failed"}

\* C11: when establishing the source connection, the store connection or
\* the schema fails, the run goes to its end without any fetch and without
\* any insert_data call: no data function is called in that run.
C11_StartupFailureNoIngestion ==
    lastOp \in StartupFailures =>
        /\ called = {}
        /\ requested = 0
        /\ pc \in {"Cleanup", "Terminated"}

\* A run has ended because create_table failed.
C11_Witness ==
    /\ lastOp = "create_table_failed"
    /\ pc = "Terminated"
    /\ called = {}

\* C12: no failure during Backfilling is fatal: whatever the bulk fetch
\* returns and whatever error is raised during the fetch, the transform or
\* the insert, the loop goes from Backfilling to Waiting and never towards
\* Terminated (a user interruption is not a backfill failure).
C12_BackfillFailureNonFatal ==
    [][ (pc = "Backfilling" /\ lastOp' # "interrupt")
        => pc' \in {"Backfilling", "Waiting"} ]_vars

\* The bulk fetch of the daily script returned INITIAL_CANDLES + 1 periods
\* (5001 for the configured 5000).
FullDailyBackfill ==
    /\ inst = "daily"
    /\ lastOp = "backfill"
    /\ ~fetched.none
    /\ Len(fetched.rows) = INITIAL_CANDLES + 1

\* C13: end to end, with a bulk fetch returning INITIAL_CANDLES + 1 daily
\* periods, the backfill of the first run inserts exactly INITIAL_CANDLES
\* rows, and the backfill of an immediate second run with the identical
\* fetch result inserts 0 rows.
C13_RerunInsertsNothing ==
    /\ (run = 1 /\ FullDailyBackfill) => rows = INITIAL_CANDLES
    /\ (run = 2 /\ FullDailyBackfill /\ firstRun.done
        /\ fetched = firstRun.fetched /\ firstRun.inserted = INITIAL_CANDLES)
           => rows = 0

\* C14: in every reachable state every row of the table is bullish exactly
\* when its close is above its open, bearish exactly when below, neutral
\* exactly when equal, and its range is its high minus its low.
C14_DerivedFieldsConsistent ==
    \A k \in DOMAIN table :
        LET r == table[k] IN
        /\ (r.candle_type = "bullish") <=> (r.close > r.open)
        /\ (r.candle_type = "bearish") <=> (r.close < r.open)
        /\ (r.candle_type = "neutral") <=> (r.close = r.open)
        /\ r.range = r.high - r.low

\* After a backfill the table holds a bullish, a bearish and a neutral row.
C14_Witness ==
    /\ lastOp = "backfill"
    /\ \A t \in {"bullish", "bearish", "neutral"} :
          \E k \in DOMAIN table : table[k].candle_type = t /\ table[k].range > 0

\* C20: in the steady loop of both instances every tick prints a line that
\* tells its outcome: a newly inserted candle, a duplicate that was not
\* inserted, or a skipped tick without completed data; a tick that adds no
\* row is never reported as an update.
C20_TickOutcomeLogged ==
    /\ (lastOp = "persist" /\ rows > 0) => log = "updated"
    /\ (lastOp = "persist" /\ rows = 0) => log = "duplicate_or_failed"
    /\ (lastOp = "fetch" /\ Len(passed) = 0) => log = "no_data"

\* The periods the table holds a row for.
StoredPeriods == {p \in 0..LastPeriod : KeyOfPeriod(inst, p) \in DOMAIN table}

\* The period a provider record belongs to.
PeriodOfRecord(i, raw) == (raw.time - BaseEpoch) \div PeriodSeconds(i)

\* C21: if the backfill stored candles and every fetch of the steady loop
\* returned two periods, then after every tick the table holds a row for
\* every period from the oldest stored one through the period that was the
\* most recently completed one at the tick's fetch, without a gap, also when
\* the backfill or an iteration of the loop lasted longer than one period.
C21_NoGapAfterTick ==
    (lastOp = "persist" /\ fullFetches) =>
        LET completed == PeriodOfRecord(inst, fetched.rows[1])
        IN  /\ StoredPeriods # {}
            /\ \A p \in 0..completed :
                   (\E q \in StoredPeriods : q <= p) => p \in StoredPeriods

----------------------------------------------------------------------------
(* format_data alone: one call on a drawn argument, None or a raw frame.   *)

FormatArgs ==
    {[none |-> TRUE, rows |-> << >>]} \cup
    {[none |-> FALSE, rows |-> rf] : rf \in RawFrames}

FormatInit ==
    /\ IdleMain
    /\ sch = [pc |-> "idle"]
    /\ \E i \in Instances, a \in FormatArgs :
          up = [pc |-> "start", inst |-> i, arg |-> a,
                out |-> [raised |-> FALSE, frame |-> << >>]]

FormatCall ==
    /\ up.pc = "start"
    /\ up' = [up EXCEPT !.pc = "formatted",
                        !.out = format_data_call(up.inst, up.arg)]
    /\ UNCHANGED <<mainVars, sch>>

FormatNext == FormatCall

SpecFormat == FormatInit /\ [][FormatNext]_vars

\* C22: for every batch of raw periods format_data returns as many candles
\* as it was given periods, in the same order, the n-th candle made from the
\* n-th period; the result is empty exactly when the input is empty or
\* missing, and such an input raises nothing.
C22_TransformKeepsLengthAndOrder ==
    up.pc = "formatted" =>
        LET in  == up.arg.rows
            out == up.out.frame
        IN  /\ ~up.out.raised
            /\ Len(out) = Len(in)
            /\ (Len(out) = 0) <=> (up.arg.none \/ Len(in) = 0)
            /\ \A n \in 1..Len(in) :
                  /\ out[n].time = Strftime(in[n].time - TZ_SHIFT_HOURS * SecondsPerHour)
                  /\ out[n].open = in[n].open
                  /\ out[n].high = in[n].high
                  /\ out[n].low = in[n].low
                  /\ out[n].close = in[n].close
                  /\ out[n].tick_volume = in[n].tick_volume
                  /\ out[n].spread = in[n].spread
                  /\ out[n].real_volume = in[n].real_volume

\* A frame of at least two periods that is not in time order and holds two
\* different price variants has been formatted.
C22_Witness ==
    /\ up.pc = "formatted"
    /\ Len(up.arg.rows) >= 2
    /\ up.arg.rows[1].time > up.arg.rows[2].time
    /\ up.arg.rows[1].close # up.arg.rows[2].close
    /\ Len(up.out.frame) = Len(up.arg.rows)

====
